---- MODULE Spec2Model ----
(***************************************************************************)
(* carboxyl_window: GliumLoop (src/src/glium_loop.rs).                     *)
(*                                                                         *)
(* The loop owns eight sinks.  dispatch classifies one raw glutin event    *)
(* into at most one send; start runs the drift-corrected tick scheduler;   *)
(* the accessors of ApplicationLoop hand out streams and cells derived     *)
(* from the sinks.                                                         *)
(***************************************************************************)
EXTENDS Integers, Sequences, FiniteSets

(* ---- bounds of the model ---- *)
MaxTick == 2
MaxTime == 7
MaxEvents == 2
MaxPolls == 2
MaxHandles == 2

(* ---- glutin vocabulary (small representatives of each payload type) ---- *)
ElementState == {"Pressed", "Released"}
VirtualKeyCode == {"A"}
MouseButton == {"Left"}
WheelDeltas == {-1}
Positions == {<<7, 8>>}
Widths == {3}
Heights == {4, 6}
Chars == {"c"}

Some(x) == <<x>>
None == <<>>

Event ==
       [type : {"KeyboardInput"}, state : ElementState,
        vkey : {None} \cup {Some(k) : k \in VirtualKeyCode}]
  \cup [type : {"MouseInput"}, state : ElementState, button : MouseButton]
  \cup [type : {"MouseWheel"}, lines : WheelDeltas]
  \cup [type : {"MouseMoved"}, pos : Positions]
  \cup [type : {"Focused"}, focused : {FALSE}]
  \cup [type : {"Resized"}, w : Widths, h : Heights]
  \cup [type : {"Moved"}, x : {p[1] : p \in Positions}, y : {p[2] : p \in Positions}]
  \cup [type : {"ReceivedCharacter"}, c : Chars]
  \cup [type : {"Closed"}]
  \cup [type : {"Awakened"}]

VARIABLES
  tick_length,  \* GliumLoop.tick_length
  pc,           \* position of start(): "new", "main", "for", "sync", "done", "panic"
  clock,        \* what precise_time_ns() would return now
  time,         \* local `time` of start()
  next_tick,    \* local `next_tick` of start()
  delta,        \* local `delta` of the current iteration
  batch,        \* events of the current poll_events() not yet iterated
  display,      \* the raw events the display has yet to deliver, in arrival order
  writes,       \* every Sink::send so far, in order: <<sink, value>>
  handles,      \* the endpoints the accessors have handed out, in call order
  start_time,   \* history: the first clock reading of start()
  batches,      \* history: every poll batch, as delivered by the display
  dispatched,   \* history: every event passed to dispatch, in order
  last          \* history: the last step of start()

vars == <<tick_length, pc, clock, time, next_tick, delta, batch, display,
          writes, handles, start_time, batches, dispatched, last>>

(* ---- helpers ---- *)
\* the events that matter to the scheduler: the one that ends the loop, one
\* that dispatch writes to a sink and one that dispatch drops
LoopEvent == {e \in Event : e.type \in {"Closed", "MouseWheel", "Awakened"}}

SeqsUpTo(S, n) == UNION {[1..k -> S] : k \in 0..n}

(* ---- GliumLoop::new ---- *)
new(tl) ==
  /\ tick_length = tl
  /\ pc = "new"
  /\ time = 0
  /\ next_tick = 0
  /\ delta = 0
  /\ batch = <<>>
  /\ writes = <<>>
  /\ handles = <<>>
  /\ start_time = 0
  /\ batches = <<>>
  /\ dispatched = <<>>
  /\ last = "new"

\* the loop as constructed with any tick length, at an early clock value, the
\* display about to deliver events of the kinds the scheduler tells apart
InitLoop ==
  /\ \E tl \in 0..MaxTick : new(tl)
  /\ clock \in {0, 1}
  /\ display \in SeqsUpTo(LoopEvent, MaxEvents)

\* the loop as constructed with a positive tick length, at an early clock
\* value, the display about to deliver the event that ends the loop or one
\* that dispatch drops
InitAnyClock ==
  /\ \E tl \in 1..MaxTick : new(tl)
  /\ clock \in {0, 1}
  /\ display \in SeqsUpTo({e \in Event : e.type \in {"Closed", "Awakened"}}, MaxEvents)

\* the loop as constructed with tick length 1, at a late clock value, the
\* display about to deliver events of any kind
Init ==
  /\ new(1)
  /\ clock = MaxTime - 1
  /\ display \in SeqsUpTo(Event, MaxEvents)

(* ---- dispatch ---- *)
\* a slip in to_button_state: the two states are swapped
to_button_state_swapped(state) ==
  CASE state = "Pressed" -> "Released"
    [] state = "Released" -> "Pressed"

to_button_state(state) ==
  CASE state = "Pressed" -> "Pressed"
    [] state = "Released" -> "Released"

ButtonEvent(button, state) == [button |-> button, state |-> state]

\* a slip in dispatch: the wheel delta goes to the cursor-motion sink
dispatch_wheel_to_motion(event) ==
  CASE event.type = "KeyboardInput" /\ event.vkey # None ->
         << <<"button_sink",
              ButtonEvent(<<"Keyboard", event.vkey[1]>>, to_button_state(event.state))>> >>
    [] event.type = "MouseInput" ->
         << <<"button_sink",
              ButtonEvent(<<"Mouse", event.button>>, to_button_state(event.state))>> >>
    [] event.type = "MouseWheel" -> << <<"mouse_motion_sink", event.lines>> >>
    [] event.type = "MouseMoved" -> << <<"mouse_motion_sink", event.pos>> >>
    [] event.type = "Focused" -> << <<"focus_sink", event.focused>> >>
    [] event.type = "Resized" -> << <<"winsize_sink", <<event.w, event.h>> >> >>
    [] event.type = "Moved" -> << <<"winpos_sink", <<event.x, event.y>> >> >>
    [] event.type = "ReceivedCharacter" -> << <<"char_sink", event.c>> >>
    [] OTHER -> <<>>

\* the sends dispatch performs for one event: a sequence of <<sink, value>>
dispatch(event) ==
  CASE event.type = "KeyboardInput" /\ event.vkey # None ->
         << <<"button_sink",
              ButtonEvent(<<"Keyboard", event.vkey[1]>>, to_button_state(event.state))>> >>
    [] event.type = "MouseInput" ->
         << <<"button_sink",
              ButtonEvent(<<"Mouse", event.button>>, to_button_state(event.state))>> >>
    [] event.type = "MouseWheel" -> << <<"mouse_wheel_sink", event.lines>> >>
    [] event.type = "MouseMoved" -> << <<"mouse_motion_sink", event.pos>> >>
    [] event.type = "Focused" -> << <<"focus_sink", event.focused>> >>
    [] event.type = "Resized" -> << <<"winsize_sink", <<event.w, event.h>> >> >>
    [] event.type = "Moved" -> << <<"winpos_sink", <<event.x, event.y>> >> >>
    [] event.type = "ReceivedCharacter" -> << <<"char_sink", event.c>> >>
    [] OTHER -> <<>>

(* ---- the endpoints: Sink::stream and Stream::hold as the accessors use them ---- *)
\* sink.stream(), returned by accessor `acc`: shows the sends made from now on
stream(acc, sink) == [acc |-> acc, sink |-> sink, cell |-> FALSE, seen |-> <<>>]

\* sink.stream().hold(initial), returned by accessor `acc`: reads `initial`
\* until the next send, then the value last sent
hold(acc, sink, initial) == [acc |-> acc, sink |-> sink, cell |-> TRUE, now |-> initial]

\* one send, as one endpoint sees it
deliver(h, s, v) ==
  IF h.sink # s THEN h
  ELSE IF h.cell THEN [h EXCEPT !.now = v]
  ELSE [h EXCEPT !.seen = Append(@, v)]

RECURSIVE deliver_all(_, _)
deliver_all(h, ws) ==
  IF ws = <<>> THEN h
  ELSE deliver_all(deliver(h, Head(ws)[1], Head(ws)[2]), Tail(ws))

\* a slip in send: only the endpoint handed out first is notified
send_to_first_only(ws) ==
  /\ writes' = writes \o ws
  /\ handles' = [i \in DOMAIN handles |->
                   IF i = 1 THEN deliver_all(handles[i], ws) ELSE handles[i]]

\* Sink::send for each of `ws` in order: synchronous, seen by every endpoint
send(ws) ==
  /\ writes' = writes \o ws
  /\ handles' = [i \in DOMAIN handles |-> deliver_all(handles[i], ws)]

\* what an accessor leaves alone
loop_state == <<tick_length, pc, clock, time, next_tick, delta, batch, display,
                writes, start_time, batches, dispatched, last>>

ticks ==
  /\ Len(handles) < MaxHandles
  /\ handles' = Append(handles, stream("ticks", "tick_sink"))
  /\ UNCHANGED loop_state

position ==
  /\ Len(handles) < MaxHandles
  /\ handles' = Append(handles, hold("position", "winpos_sink", <<0, 0>>))
  /\ UNCHANGED loop_state

\* a slip in size: the cell is derived from the window-position sink
size_from_winpos ==
  /\ Len(handles) < MaxHandles
  /\ handles' = Append(handles, hold("size", "winpos_sink", <<0, 0>>))
  /\ UNCHANGED loop_state

size ==
  /\ Len(handles) < MaxHandles
  /\ handles' = Append(handles, hold("size", "winsize_sink", <<0, 0>>))
  /\ UNCHANGED loop_state

buttons ==
  /\ Len(handles) < MaxHandles
  /\ handles' = Append(handles, stream("buttons", "button_sink"))
  /\ UNCHANGED loop_state

characters ==
  /\ Len(handles) < MaxHandles
  /\ handles' = Append(handles, stream("characters", "char_sink"))
  /\ UNCHANGED loop_state

cursor ==
  /\ Len(handles) < MaxHandles
  /\ handles' = Append(handles, hold("cursor", "mouse_motion_sink", <<0, 0>>))
  /\ UNCHANGED loop_state

wheel ==
  /\ Len(handles) < MaxHandles
  /\ handles' = Append(handles, hold("wheel", "mouse_wheel_sink", 0))
  /\ UNCHANGED loop_state

\* a slip in focus: the cell is seeded with false
focus_seeded_false ==
  /\ Len(handles) < MaxHandles
  /\ handles' = Append(handles, hold("focus", "focus_sink", FALSE))
  /\ UNCHANGED loop_state

focus ==
  /\ Len(handles) < MaxHandles
  /\ handles' = Append(handles, hold("focus", "focus_sink", TRUE))
  /\ UNCHANGED loop_state

(* ---- start ---- *)
\* precise_time_ns() in the loop: the clock has moved on by some d >= 0 since
\* it was last read (monotonic)
Readings == clock..MaxTime

\* a slip in line 127: delta is rounded up to the next multiple
Delta_rounds_up(diff, tl) == diff - (diff % tl) + tl

\* a slip in line 127: the remainder is not taken off
Delta_whole_diff(diff, tl) == diff

\* line 127
Delta(diff, tl) == diff - (diff % tl)

\* a slip in line 128: a fixed increment of one tick length
Advance_by_tick_length(nt, d, tl) == nt + tl

\* line 128
Advance(nt, d, tl) == nt + d

\* lines 121-122
start ==
  /\ pc = "new"
  /\ time' = clock
  /\ next_tick' = clock
  /\ start_time' = clock
  /\ pc' = "main"
  /\ last' = "start"
  /\ UNCHANGED <<tick_length, clock, delta, batch, display, writes, handles,
                 batches, dispatched>>

\* a slip in lines 126-129: the events are polled before delta is computed
main_loop_polls_first ==
  /\ pc = "main"
  /\ \E t \in Readings :
       /\ time' = t
       /\ IF t >= next_tick
          THEN IF tick_length = 0
               THEN /\ pc' = "panic"
                    /\ last' = "panic"
                    /\ clock' = t
                    /\ \E n \in 0..Len(display) :
                         /\ batch' = SubSeq(display, 1, n)
                         /\ display' = SubSeq(display, n + 1, Len(display))
                         /\ batches' = Append(batches, batch')
                    /\ UNCHANGED <<next_tick, delta>>
               ELSE /\ Len(batches) < MaxPolls
                    /\ delta' = Delta(t - next_tick, tick_length)
                    /\ next_tick' = Advance(next_tick, delta', tick_length)
                    /\ \E n \in 0..Len(display) :
                         /\ batch' = SubSeq(display, 1, n)
                         /\ display' = SubSeq(display, n + 1, Len(display))
                         /\ batches' = Append(batches, batch')
                    /\ pc' = "for"
                    /\ last' = "due"
                    /\ clock' = t
          ELSE /\ clock' = t + (next_tick - t)
               /\ pc' = "main"
               /\ last' = "sleep"
               /\ UNCHANGED <<next_tick, delta, batch, display, batches>>
  /\ UNCHANGED <<tick_length, writes, handles, start_time, dispatched>>

\* a slip in line 138: the sleep lasts one tick length
main_loop_sleeps_tick_length ==
  /\ pc = "main"
  /\ \E t \in Readings :
       /\ time' = t
       /\ IF t >= next_tick
          THEN IF tick_length = 0
               THEN /\ pc' = "panic"
                    /\ last' = "panic"
                    /\ clock' = t
                    /\ UNCHANGED <<next_tick, delta, batch, display, batches>>
               ELSE /\ Len(batches) < MaxPolls
                    /\ delta' = Delta(t - next_tick, tick_length)
                    /\ next_tick' = Advance(next_tick, delta', tick_length)
                    /\ \E n \in 0..Len(display) :
                         /\ batch' = SubSeq(display, 1, n)
                         /\ display' = SubSeq(display, n + 1, Len(display))
                         /\ batches' = Append(batches, batch')
                    /\ pc' = "for"
                    /\ last' = "due"
                    /\ clock' = t
          ELSE /\ clock' = t + tick_length
               /\ pc' = "main"
               /\ last' = "sleep"
               /\ UNCHANGED <<next_tick, delta, batch, display, batches>>
  /\ UNCHANGED <<tick_length, writes, handles, start_time, dispatched>>

\* lines 124-129 and 137-139: one pass of 'main up to the poll, or the sleep
main_loop ==
  /\ pc = "main"
  /\ \E t \in Readings :
       /\ time' = t
       /\ IF t >= next_tick
          THEN IF tick_length = 0
               THEN /\ pc' = "panic"
                    /\ last' = "panic"
                    /\ clock' = t
                    /\ UNCHANGED <<next_tick, delta, batch, display, batches>>
               ELSE /\ Len(batches) < MaxPolls  \* the model follows MaxPolls polls
                    /\ delta' = Delta(t - next_tick, tick_length)
                    /\ next_tick' = Advance(next_tick, delta', tick_length)
                    /\ \E n \in 0..Len(display) :
                         /\ batch' = SubSeq(display, 1, n)
                         /\ display' = SubSeq(display, n + 1, Len(display))
                         /\ batches' = Append(batches, batch')
                    /\ pc' = "for"
                    /\ last' = "due"
                    /\ clock' = t
          ELSE /\ clock' = t + (next_tick - t)
               /\ pc' = "main"
               /\ last' = "sleep"
               /\ UNCHANGED <<next_tick, delta, batch, display, batches>>
  /\ UNCHANGED <<tick_length, writes, handles, start_time, dispatched>>

\* a slip in line 130: Closed is skipped and the loop goes on
for_ev_skips_closed ==
  /\ pc = "for"
  /\ batch # <<>>
  /\ IF Head(batch).type = "Closed"
     THEN /\ pc' = "for"
          /\ last' = "closed"
          /\ batch' = Tail(batch)
          /\ UNCHANGED <<writes, handles, dispatched>>
     ELSE /\ send(dispatch(Head(batch)))
          /\ dispatched' = Append(dispatched, Head(batch))
          /\ batch' = Tail(batch)
          /\ last' = "dispatch"
          /\ pc' = "for"
  /\ UNCHANGED <<tick_length, clock, time, next_tick, delta, display, start_time,
                 batches>>

\* a slip in line 130: the pattern also matches Awakened
for_ev_breaks_on_awakened ==
  /\ pc = "for"
  /\ batch # <<>>
  /\ IF Head(batch).type \in {"Closed", "Awakened"}
     THEN /\ pc' = "done"
          /\ last' = "closed"
          /\ UNCHANGED <<batch, writes, handles, dispatched>>
     ELSE /\ send(dispatch(Head(batch)))
          /\ dispatched' = Append(dispatched, Head(batch))
          /\ batch' = Tail(batch)
          /\ last' = "dispatch"
          /\ pc' = "for"
  /\ UNCHANGED <<tick_length, clock, time, next_tick, delta, display, start_time,
                 batches>>

\* lines 129-132: one turn of the for loop
for_ev ==
  /\ pc = "for"
  /\ batch # <<>>
  /\ IF Head(batch).type = "Closed"
     THEN /\ pc' = "done"
          /\ last' = "closed"
          /\ UNCHANGED <<batch, writes, handles, dispatched>>
     ELSE /\ send(dispatch(Head(batch)))
          /\ dispatched' = Append(dispatched, Head(batch))
          /\ batch' = Tail(batch)
          /\ last' = "dispatch"
          /\ pc' = "for"
  /\ UNCHANGED <<tick_length, clock, time, next_tick, delta, display, start_time,
                 batches>>

\* a slip in line 133: the tick is sent only when events were polled
tick_send_unless_idle ==
  /\ pc = "for"
  /\ batch = <<>>
  /\ IF batches[Len(batches)] = <<>>
     THEN UNCHANGED <<writes, handles>>
     ELSE send(<< <<"tick_sink", delta>> >>)
  /\ pc' = "sync"
  /\ last' = "tick"
  /\ UNCHANGED <<tick_length, clock, time, next_tick, delta, batch, display,
                 start_time, batches, dispatched>>

\* line 133
tick_send ==
  /\ pc = "for"
  /\ batch = <<>>
  /\ send(<< <<"tick_sink", delta>> >>)
  /\ pc' = "sync"
  /\ last' = "tick"
  /\ UNCHANGED <<tick_length, clock, time, next_tick, delta, batch, display,
                 start_time, batches, dispatched>>

\* line 135
synchronize ==
  /\ pc = "sync"
  /\ pc' = "main"
  /\ last' = "sync"
  /\ UNCHANGED <<tick_length, clock, time, next_tick, delta, batch, display,
                 writes, handles, start_time, batches, dispatched>>

\* precise_time_ns() on a platform whose counter is not monotonic: the
\* counter has stepped back, before the next reading of line 124 or after
\* start() has returned
clock_steps_back ==
  /\ pc \in {"main", "done"}
  /\ clock > 0
  /\ \E c \in 0..(clock - 1) : clock' = c
  /\ UNCHANGED <<tick_length, pc, time, next_tick, delta, batch, display, writes,
                 handles, start_time, batches, dispatched, last>>

NextLoop ==
  \/ start
  \/ main_loop
  \/ for_ev
  \/ tick_send
  \/ synchronize

Next ==
  \/ start
  \/ main_loop
  \/ for_ev
  \/ tick_send
  \/ synchronize
  \/ ticks
  \/ position
  \/ size
  \/ buttons
  \/ characters
  \/ cursor
  \/ wheel
  \/ focus

NextAnyClock ==
  \/ start
  \/ main_loop
  \/ for_ev
  \/ tick_send
  \/ synchronize
  \/ clock_steps_back

\* start() on its own, over tick lengths and clock readings
SpecLoop == InitLoop /\ [][NextLoop]_vars

\* start() on its own, over raw events of every kind
SpecEvents == Init /\ [][NextLoop]_vars

\* start() with the accessors called at any point
Spec == Init /\ [][Next]_vars

\* start() on its own, where the thread running it always takes its next
\* step: poll_events, sleep and synchronize return
SpecLoopFair == InitLoop /\ [][NextLoop]_vars /\ WF_vars(NextLoop)

\* start() on its own with a clock that may also step back
SpecAnyClock == InitAnyClock /\ [][NextAnyClock]_vars

(* ======================= the claims ======================= *)
RECURSIVE Flatten(_)
Flatten(ss) == IF ss = <<>> THEN <<>> ELSE Head(ss) \o Flatten(Tail(ss))

RECURSIVE SumSeq(_)
SumSeq(s) == IF s = <<>> THEN 0 ELSE Head(s) + SumSeq(Tail(s))

RECURSIVE Values(_, _)
\* the values sent on sink `s`, in order, among the writes `ws`
Values(ws, s) ==
  IF ws = <<>> THEN <<>>
  ELSE IF Head(ws)[1] = s THEN <<Head(ws)[2]>> \o Values(Tail(ws), s)
       ELSE Values(Tail(ws), s)

TickValues == Values(writes, "tick_sink")

HasClosed(b) == \E i \in DOMAIN b : b[i].type = "Closed"

\* C1: every delta emitted on the tick sink (tick_length > 0) is a positive
\* multiple of tick_length: never 0, at least tick_length, also on the first
\* iteration.
C1_DeltaPositiveMultiple ==
  tick_length > 0 =>
    \A i \in DOMAIN TickValues :
      /\ TickValues[i] # 0
      /\ TickValues[i] >= tick_length
      /\ TickValues[i] % tick_length = 0

\* C2: in every due iteration delta is the largest multiple of tick_length not
\* exceeding diff = now - next_tick, delta = diff - (diff mod tick_length),
\* next_tick advances by exactly delta, and the remainder carries over:
\* 0 <= now - next_tick < tick_length right after the advance.
C2_DeltaLargestMultiple ==
  [][(pc = "main" /\ pc' = "for") =>
       LET diff == time' - next_tick IN
         /\ diff >= 0
         /\ delta' % tick_length = 0
         /\ delta' <= diff
         /\ diff < delta' + tick_length
         /\ delta' = diff - (diff % tick_length)
         /\ next_tick' = next_tick + delta'
         /\ 0 <= time' - next_tick'
         /\ time' - next_tick' < tick_length]_vars

\* C2 witness: an overshoot of three and a half tick lengths has just been
\* coalesced into one delta of three tick lengths, half a tick length carried
\* over.
C2_Witness ==
  /\ pc = "for"
  /\ last = "due"
  /\ tick_length = 2
  /\ delta = 6
  /\ time - next_tick = 1

\* C3: a poll batch with a Closed event ends start() with no tick sent for that
\* iteration, wherever Closed sits in the batch; the number of tick emissions
\* is the number of completed poll batches that held no Closed.
C3_ClosedEndsWithoutTick ==
  LET n == Len(batches)
      completed(i) == i < n \/ pc \in {"sync", "main"}
  IN /\ Len(TickValues) =
          Cardinality({i \in DOMAIN batches : completed(i) /\ ~HasClosed(batches[i])})
     /\ \A i \in DOMAIN batches : HasClosed(batches[i]) =>
          /\ i = n
          /\ pc \in {"for", "done"}
          /\ pc = "for" => HasClosed(batch)
     /\ pc = "done" => n > 0 /\ HasClosed(batches[n]) /\ Len(TickValues) = n - 1

\* C3 witness: the second batch held Closed first and another event after it;
\* start() has ended with the one tick of the first batch.
C3_Witness ==
  /\ pc = "done"
  /\ Len(batches) = 2
  /\ Len(batches[2]) = 2
  /\ batches[2][1].type = "Closed"
  /\ batches[2][2].type = "KeyboardInput"
  /\ Len(TickValues) = 1

\* the classification table of the Event Dispatcher, event by event
TableSink(e) ==
  CASE e.type = "KeyboardInput" -> IF e.vkey = None THEN "none" ELSE "button_sink"
    [] e.type = "MouseInput" -> "button_sink"
    [] e.type = "MouseWheel" -> "mouse_wheel_sink"
    [] e.type = "MouseMoved" -> "mouse_motion_sink"
    [] e.type = "Focused" -> "focus_sink"
    [] e.type = "Resized" -> "winsize_sink"
    [] e.type = "Moved" -> "winpos_sink"
    [] e.type = "ReceivedCharacter" -> "char_sink"
    [] OTHER -> "none"

TableValue(e) ==
  CASE e.type = "KeyboardInput" -> [button |-> <<"Keyboard", e.vkey[1]>>, state |-> e.state]
    [] e.type = "MouseInput" -> [button |-> <<"Mouse", e.button>>, state |-> e.state]
    [] e.type = "MouseWheel" -> e.lines
    [] e.type = "MouseMoved" -> e.pos
    [] e.type = "Focused" -> e.focused
    [] e.type = "Resized" -> <<e.w, e.h>>
    [] e.type = "Moved" -> <<e.x, e.y>>
    [] e.type = "ReceivedCharacter" -> e.c

RECURSIVE TableWrites(_)
TableWrites(es) ==
  IF es = <<>> THEN <<>>
  ELSE (IF TableSink(Head(es)) = "none" THEN <<>>
        ELSE << <<TableSink(Head(es)), TableValue(Head(es))>> >>)
       \o TableWrites(Tail(es))

RECURSIVE EventWrites(_)
\* the writes other than those on the tick sink, in order
EventWrites(ws) ==
  IF ws = <<>> THEN <<>>
  ELSE (IF Head(ws)[1] = "tick_sink" THEN <<>> ELSE <<Head(ws)>>) \o EventWrites(Tail(ws))

RECURSIVE SameWrites(_, _)
SameWrites(ws, xs) ==
  IF ws = <<>> \/ xs = <<>> THEN ws = <<>> /\ xs = <<>>
  ELSE /\ Head(ws)[1] = Head(xs)[1]
       /\ Head(ws)[2] = Head(xs)[2]
       /\ SameWrites(Tail(ws), Tail(xs))

\* C4: the events passed to dispatch cause exactly the writes of the
\* classification table, one write to one sink or none per event, in the order
\* of the events, and nothing else is written to any sink but the tick sink.
C4_DispatchFollowsTable ==
  SameWrites(EventWrites(writes), TableWrites(dispatched))

\* C4 witness: a key event without key code (no write) and a wheel event (one
\* write on the wheel sink) have been dispatched, in that order.
C4_Witness ==
  /\ Len(dispatched) = 2
  /\ dispatched[1].type = "KeyboardInput"
  /\ dispatched[1].vkey = None
  /\ dispatched[2].type = "MouseWheel"
  /\ Len(EventWrites(writes)) = 1

RECURSIVE ButtonEventsOf(_)
\* the ButtonEvents of the keyboard (with key code) and pointer-button events
ButtonEventsOf(es) ==
  IF es = <<>> THEN <<>>
  ELSE (IF TableSink(Head(es)) = "button_sink" THEN <<TableValue(Head(es))>> ELSE <<>>)
       \o ButtonEventsOf(Tail(es))

\* every raw event the display has delivered, in arrival order
Arrived == Flatten(batches)

\* C5 as stated: over a whole run of start() the button sink shows exactly the
\* ButtonEvents of all keyboard (with key code) and pointer-button raw events,
\* in arrival order.
C5_ButtonsOfAllArrived ==
  pc = "done" => Values(writes, "button_sink") = ButtonEventsOf(Arrived)

\* C5 amended: at every point the button sink shows exactly the ButtonEvents of
\* the raw events iterated so far, in arrival order, same identity and state;
\* iteration stops at the first Closed, so the events that follow Closed in the
\* last batch emit nothing.
C5_ButtonsOfArrivedBeforeClosed ==
  LET iterated == SubSeq(Arrived, 1, Len(Arrived) - Len(batch)) IN
    /\ Values(writes, "button_sink") = ButtonEventsOf(iterated)
    /\ ~HasClosed(iterated)
    /\ pc = "done" => batch # <<>> /\ Head(batch).type = "Closed"

\* C5 witness: key A pressed, then released, in one batch; both ButtonEvents
\* are on the button sink in that order.
C5_Witness ==
  /\ Len(dispatched) = 2
  /\ Values(writes, "button_sink") =
       << [button |-> <<"Keyboard", "A">>, state |-> "Pressed"],
          [button |-> <<"Keyboard", "A">>, state |-> "Released"] >>

RECURSIVE LastResized(_)
\* the size of the last Resized event among `es`, <<>> when there is none
LastResized(es) ==
  IF es = <<>> THEN <<>>
  ELSE IF es[Len(es)].type = "Resized" THEN <<es[Len(es)].w, es[Len(es)].h>>
  ELSE LastResized(SubSeq(es, 1, Len(es) - 1))

\* C6 as stated: once a Resized(w, h) has been dispatched, every cell obtained
\* from size(), before or after the event, reads (w, h) until the next Resized.
C6_SizeReadsLastResized ==
  \A i \in DOMAIN handles :
    (handles[i].acc = "size" /\ LastResized(dispatched) # <<>>) =>
      handles[i].now = LastResized(dispatched)

\* the step that dispatches a Resized event
DispatchesResized ==
  /\ pc = "for"
  /\ batch # <<>>
  /\ Head(batch).type = "Resized"
  /\ dispatched' = Append(dispatched, Head(batch))

\* C6 amended: a cell obtained from size() before a Resized(w, h) is dispatched
\* reads (w, h) right after it and keeps its reading until the next Resized is
\* dispatched; a cell obtained from size() after the event starts at (0, 0).
C6_SizeCellFollowsResized ==
  [][/\ \A i \in DOMAIN handles : handles[i].acc = "size" =>
          IF DispatchesResized
          THEN handles'[i].now = <<Head(batch).w, Head(batch).h>>
          ELSE handles'[i].now = handles[i].now
     /\ \A i \in DOMAIN handles' :
          (i \notin DOMAIN handles /\ handles'[i].acc = "size") =>
            handles'[i].now = <<0, 0>>]_vars

\* C6 witness: a size() cell reads (3, 6) after Resized(3, 6) and one more
\* event of another kind; a size() cell obtained later reads (0, 0).
C6_Witness ==
  /\ Len(dispatched) = 2
  /\ dispatched[1].type = "Resized"
  /\ dispatched[1].h = 6
  /\ dispatched[2].type = "MouseWheel"
  /\ Len(handles) = 2
  /\ handles[1].acc = "size"
  /\ handles[1].now = <<3, 6>>
  /\ handles[2].acc = "size"
  /\ handles[2].now = <<0, 0>>

\* what endpoint h shows at this point: its values (a stream) or its reading
Shows(h) == IF h.cell THEN <<h.now>> ELSE h.seen

\* C7 as stated: two endpoints of the same accessor, handed out at any two
\* points of a run, show the same values in the same order as each other.
C7_SameAccessorSameValues ==
  \A i, j \in DOMAIN handles :
    handles[i].acc = handles[j].acc => Shows(handles[i]) = Shows(handles[j])

\* C7 amended: two endpoints of the same accessor are equivalent from the
\* later call on: in every step taken while both exist, a stream shows one more
\* value exactly when the other does, the same value, and a cell whose reading
\* is updated reads the same as the other; what was sent between the two calls
\* is shown by the earlier endpoint only.
C7_SameAccessorSameValuesOnceBothExist ==
  [][\A i, j \in DOMAIN handles :
       handles[i].acc = handles[j].acc =>
         /\ handles'[i].cell = handles'[j].cell
         /\ IF handles[i].cell
            THEN (handles'[i].now # handles[i].now \/ handles'[j].now # handles[j].now)
                   => handles'[i].now = handles'[j].now
            ELSE /\ Len(handles'[i].seen) - Len(handles[i].seen)
                      = Len(handles'[j].seen) - Len(handles[j].seen)
                 /\ SubSeq(handles'[i].seen, Len(handles[i].seen) + 1, Len(handles'[i].seen))
                      = SubSeq(handles'[j].seen, Len(handles[j].seen) + 1, Len(handles'[j].seen))
                 /\ SubSeq(handles'[i].seen, 1, Len(handles[i].seen)) = handles[i].seen]_vars

\* C7 witness: two buttons() streams, the first handed out before a button
\* event and the second after it; a second button event is shown by both.
C7_Witness ==
  /\ Len(handles) = 2
  /\ handles[1].acc = "buttons"
  /\ handles[2].acc = "buttons"
  /\ Len(handles[1].seen) = 2
  /\ Len(handles[2].seen) = 1
  /\ handles[2].seen[1] = handles[1].seen[2]

\* C8: as long as nothing has been sent on its sink, cursor() reads (0,0),
\* wheel() reads 0, focus() reads true, position() and size() read (0,0),
\* whatever has been sent on the other sinks and on the tick sink.
C8_CellsReadInitialValue ==
  \A i \in DOMAIN handles :
    LET h == handles[i] IN
      /\ (h.acc = "cursor" /\ Values(writes, "mouse_motion_sink") = <<>>) => h.now = <<0, 0>>
      /\ (h.acc = "wheel" /\ Values(writes, "mouse_wheel_sink") = <<>>) => h.now = 0
      /\ (h.acc = "focus" /\ Values(writes, "focus_sink") = <<>>) => h.now = TRUE
      /\ (h.acc = "position" /\ Values(writes, "winpos_sink") = <<>>) => h.now = <<0, 0>>
      /\ (h.acc = "size" /\ Values(writes, "winsize_sink") = <<>>) => h.now = <<0, 0>>

\* C8 witness: a focus() cell and a wheel() cell were handed out before a
\* Resized event and a tick; nothing was sent on their sinks.
C8_Witness ==
  /\ Len(handles) = 2
  /\ handles[1].acc = "focus"
  /\ handles[2].acc = "wheel"
  /\ Len(TickValues) = 1
  /\ Len(Values(writes, "winsize_sink")) = 1
  /\ Len(writes) = 2

\* C9: after a successful tick the next iteration finds now < next_tick and
\* sleeps: the step that follows synchronize is the sleep.
C9_SleepsAfterTick ==
  [][(last = "sync" /\ last' # "sync") => last' = "sleep"]_vars

\* C10: while start() runs (tick_length > 0), next_tick minus the starting
\* timestamp is the sum of all deltas computed so far and a multiple of
\* tick_length, and the lag now - next_tick is below tick_length.
C10_NextTickAlignedToStart ==
  (pc \in {"main", "for", "sync", "done"} /\ tick_length > 0) =>
    /\ next_tick - start_time =
         SumSeq(TickValues) + (IF pc \in {"for", "done"} THEN delta ELSE 0)
    /\ (next_tick - start_time) % tick_length = 0
    /\ 0 <= time - next_tick
    /\ time - next_tick < tick_length

\* C10 witness: two ticks of one tick length each, from a start time that is
\* no multiple of the tick length, after stalls of one and a half tick lengths.
C10_Witness ==
  /\ tick_length = 2
  /\ start_time = 1
  /\ TickValues = <<2, 2>>
  /\ next_tick = 5

\* C11: with tick_length = 0 construction succeeds and start() fails fatally
\* (modulo by zero) in its first due iteration: before any event is polled,
\* before any sink is written and before synchronize is called.
C11_ZeroTickLengthPanicsFirst ==
  /\ tick_length = 0 =>
       /\ pc \in {"new", "main", "panic"}
       /\ pc = "new" => last = "new"
       /\ pc = "main" => last = "start"
       /\ pc = "panic" => last = "panic"
       /\ batches = <<>>
       /\ dispatched = <<>>
       /\ writes = <<>>
  /\ pc = "panic" => tick_length = 0

\* C11 witness: start() has failed with two events still pending at the display.
C11_Witness ==
  /\ tick_length = 0
  /\ pc = "panic"
  /\ Len(display) = 2
  /\ time = 1

\* the position of the first Closed in a batch that holds one
FirstClosed(b) == CHOOSE i \in 1..Len(b) : b[i].type = "Closed" /\ ~HasClosed(SubSeq(b, 1, i - 1))

\* the events start() has passed to dispatch if every batch was handled in
\* order up to its first Closed, and the batches before the last completely
UpToClosed(bs) ==
  IF bs = <<>> THEN <<>>
  ELSE LET b == bs[Len(bs)]
           before == Flatten(SubSeq(bs, 1, Len(bs) - 1))
       IN  IF HasClosed(b) THEN before \o SubSeq(b, 1, FirstClosed(b) - 1) ELSE before \o b

\* C12: when a batch holds Closed the loop breaks at the first Closed: the
\* events before it in the batch have each been dispatched, in order, no
\* event after it is dispatched, and their writes are the only writes.
C12_BreaksAtFirstClosed ==
  /\ pc \in {"main", "sync", "done"} =>
       /\ dispatched = UpToClosed(batches)
       /\ SameWrites(EventWrites(writes), TableWrites(UpToClosed(batches)))
  /\ pc = "done" =>
       /\ HasClosed(batches[Len(batches)])
       /\ batch = SubSeq(batches[Len(batches)], FirstClosed(batches[Len(batches)]),
                         Len(batches[Len(batches)]))
  /\ \A i \in 1..Len(dispatched) : dispatched[i].type # "Closed"

\* C12 witness: the first batch was Closed followed by a key press; start()
\* has returned and the key press was not dispatched.
C12_Witness ==
  /\ pc = "done"
  /\ Len(batches) = 1
  /\ Len(batches[1]) = 2
  /\ batches[1][1].type = "Closed"
  /\ batches[1][2].type = "KeyboardInput"
  /\ dispatched = <<>>
  /\ writes = <<>>

\* C13: a due iteration whose batch holds no Closed performs, in this order,
\* one poll, the dispatch of every event of the batch in batch order, exactly
\* one send on the tick sink (also for an empty batch) and exactly one
\* synchronize; the next clock reading and poll come only after synchronize
\* has returned, and the iteration that observes Closed never synchronizes.
C13_IterationOrder ==
  [][ /\ batches' # batches =>
           /\ pc = "main" /\ pc' = "for"
           /\ Len(batches') = Len(batches) + 1
           /\ dispatched = Flatten(batches)
           /\ Len(TickValues) = Len(batches)
           /\ UNCHANGED <<writes, dispatched>>
      /\ dispatched' # dispatched =>
           /\ pc = "for" /\ pc' = "for"
           /\ batch # <<>>
           /\ dispatched' = Append(dispatched, Head(batch))
           /\ batch' = Tail(batch)
           /\ Len(Values(writes', "tick_sink")) = Len(batches) - 1
      /\ pc' = "sync" =>
           /\ pc = "for"
           /\ batch = <<>>
           /\ dispatched' = Flatten(batches)
           /\ Len(writes') = Len(writes) + 1
           /\ writes'[Len(writes')][1] = "tick_sink"
           /\ writes'[Len(writes')][2] = delta
           /\ Len(Values(writes', "tick_sink")) = Len(batches)
           /\ UNCHANGED <<batches, dispatched, time>>
      /\ pc = "sync" =>
           /\ pc' = "main"
           /\ UNCHANGED <<writes, batches, dispatched, time, display>>
      /\ pc' = "main" => pc \in {"new", "sync"}
      /\ pc' = "done" =>
           /\ pc = "for"
           /\ Len(Values(writes', "tick_sink")) = Len(batches) - 1
           /\ UNCHANGED <<writes, batches, dispatched, time>>
    ]_vars

\* C13 witness: two iterations have completed, the first with an empty batch
\* and the second with two events, each with its tick and its synchronize.
C13_Witness ==
  /\ pc = "main"
  /\ last = "sync"
  /\ Len(batches) = 2
  /\ batches[1] = <<>>
  /\ Len(batches[2]) = 2
  /\ Len(dispatched) = 2
  /\ Len(TickValues) = 2

\* C14: start() returns only out of a due iteration that polled and observed
\* Closed, never out of a sleeping iteration or any other step; and once it
\* has returned the loop does nothing more: no sink write, no poll, no clock
\* reading, no sleep, no synchronize.
C14_ReturnOnlyOnClosedAndFinal ==
  [][ /\ (pc' = "done" /\ pc # "done") =>
           /\ pc = "for"
           /\ last \in {"due", "dispatch"}
           /\ batch # <<>>
           /\ Head(batch).type = "Closed"
           /\ HasClosed(batches[Len(batches)])
      /\ pc = "done" =>
           /\ pc' = "done"
           /\ UNCHANGED <<time, next_tick, delta, batch, display, writes, batches,
                          dispatched, last>>
    ]_vars

\* C14 witness: start() has returned on a Closed polled in its second due
\* iteration, and the clock has moved since the return.
C14_Witness ==
  /\ pc = "done"
  /\ last = "closed"
  /\ Len(batches) = 2
  /\ Head(batch).type = "Closed"
  /\ clock < time

\* C15: in an iteration whose clock reading is below next_tick the loop sleeps
\* for exactly next_tick minus the reading and does nothing else: no poll, no
\* dispatch, no sink write, no synchronize, next_tick unchanged; then the
\* condition is checked again with a fresh reading.
C15_SleepAndNothingElse ==
  [][ (pc = "main" /\ clock' >= clock /\ time' < next_tick) =>
        /\ clock' - time' = next_tick - time'
        /\ pc' = "main"
        /\ last' = "sleep"
        /\ UNCHANGED <<tick_length, next_tick, delta, batch, display, writes,
                       handles, start_time, batches, dispatched>>
    ]_vars

\* C15 witness: after one complete iteration the clock was read 2 below
\* next_tick and the loop has just slept up to next_tick.
C15_Witness ==
  /\ pc = "main"
  /\ last = "sleep"
  /\ Len(batches) = 1
  /\ Len(TickValues) = 1
  /\ next_tick - time = 2
  /\ clock = next_tick

\* some poll has delivered a Closed
ClosedDelivered == \E i \in DOMAIN batches : HasClosed(batches[i])

\* C16: once the display has delivered a Closed in some poll batch, start()
\* eventually returns; and start() never returns unless a Closed was
\* delivered.
C16_ReturnsExactlyOnClosed ==
  /\ ClosedDelivered ~> (pc = "done")
  /\ [](pc = "done" => ClosedDelivered)

\* C16 witness: start() has returned in its second iteration, whose batch
\* held one event before the Closed.
C16_Witness ==
  /\ pc = "done"
  /\ Len(batches) = 2
  /\ Len(batches[2]) = 2
  /\ batches[2][2].type = "Closed"
  /\ Len(dispatched) >= 1

\* C17: with a monotonic clock (and tick_length > 0) next_tick never exceeds
\* the most recent clock reading, at any point of start(); so every iteration
\* takes the due branch and the sleep branch is never executed.
C17_NextTickNeverAhead ==
  tick_length > 0 =>
    /\ next_tick <= time
    /\ time <= clock
    /\ last # "sleep"
    /\ pc = "main" => \A t \in Readings : t >= next_tick

\* C17 witness: in the second iteration, after a stall, next_tick was moved
\* forward by two tick lengths and is still one below the clock reading.
C17_Witness ==
  /\ tick_length = 2
  /\ last = "due"
  /\ Len(batches) = 2
  /\ delta = 4
  /\ time - next_tick = 1

====
